---- MODULE Spec2Model ----
(***************************************************************************)
(* A model of the invoice QC service: the scalar parsers (utils.py), the   *)
(* text extractor (extractor.py) and the validation engine (validator.py). *)
(*                                                                         *)
(* Text is a TLA+ string; a character is a string of length one.  Amounts  *)
(* are integers in units of 1/Unit (four decimal places), so that 100.00   *)
(* is 1000000 and the tolerance 0.05 is 500.  An optional value (None in the  *)
(* source) is the empty sequence <<>>, a present value v is <<v>>.  A date *)
(* is a triple <<year, month, day>>.                                       *)
(***************************************************************************)
EXTENDS Integers, Sequences, FiniteSets, TLC

VARIABLES
    texts,          \* the page text of each document handed to extract_from_dir
    invoices,       \* the batch handed to validate_invoices
    pc,             \* the position of the running call
    idx,            \* the loop index of the running loop
    results,        \* validate_invoices: results
    error_counter,  \* validate_invoices: error_counter
    duplicates,     \* validate_invoices: duplicates, as a sequence of <<key, indices>>
    summary,        \* validate_invoices: summary (<<>> until built)
    returned,       \* the values validate_invoices has returned so far
    value,          \* parse_amount_maybe: the argument
    amount          \* parse_amount_maybe: the return value, as <<>> or <<v>>

vars == <<texts, invoices, pc, idx, results, error_counter, duplicates, summary,
          returned, value, amount>>

None == <<>>
Some(v) == <<v>>

(***************************************************************************)
(* Strings                                                                 *)
(***************************************************************************)
Char(s, k) == SubSeq(s, k, k)

Chars(s) == {Char(s, k) : k \in 1..Len(s)}

HasSub(s, sub) ==
    \E k \in 1..(Len(s) - Len(sub) + 1) : SubSeq(s, k, k + Len(sub) - 1) = sub

UpperLetters == "ABCDEFGHIJKLMNOPQRSTUVWXYZ"
LowerLetters == "abcdefghijklmnopqrstuvwxyz"
Digits == "0123456789"
Whitespace == " \n\t"

UpperSet == Chars(UpperLetters)
LowerSet == Chars(LowerLetters)
DigitSet == Chars(Digits)
SpaceSet == Chars(Whitespace)

LowerOf == [c \in UpperSet |-> Char(LowerLetters, CHOOSE k \in 1..26 : Char(UpperLetters, k) = c)]

LowerChar(c) == IF c \in UpperSet THEN LowerOf[c] ELSE c

\* str.lower(), by halves
RECURSIVE lower(_)
lower(s) ==
    IF Len(s) = 0 THEN ""
    ELSE IF Len(s) = 1 THEN LowerChar(s)
    ELSE lower(SubSeq(s, 1, Len(s) \div 2)) \o lower(SubSeq(s, Len(s) \div 2 + 1, Len(s)))

RECURSIVE lstrip(_)
lstrip(s) == IF s # "" /\ Head(s) \in SpaceSet THEN lstrip(Tail(s)) ELSE s

RECURSIVE rstrip(_)
rstrip(s) ==
    IF s # "" /\ Char(s, Len(s)) \in SpaceSet
    THEN rstrip(SubSeq(s, 1, Len(s) - 1))
    ELSE s

strip(s) == rstrip(lstrip(s))

\* str.replace(old, new) for a one-character old
RECURSIVE replace(_, _, _)
replace(s, old, new) ==
    IF s = "" THEN ""
    ELSE (IF Head(s) = old THEN new ELSE Head(s)) \o replace(Tail(s), old, new)

\* re.sub(r"[^...]", "", s): keep the characters of the class
RECURSIVE KeepChars(_, _)
KeepChars(s, class) ==
    IF s = "" THEN ""
    ELSE (IF Head(s) \in class THEN Head(s) ELSE "") \o KeepChars(Tail(s), class)

RECURSIVE splitlines(_)
splitlines(s) ==
    LET breaks == {k \in 1..Len(s) : Char(s, k) = "\n"}
    IN  IF s = "" THEN <<>>
        ELSE IF breaks # {}
             THEN LET k == CHOOSE j \in breaks : \A h \in breaks : j <= h
                  IN  <<SubSeq(s, 1, k - 1)>> \o splitlines(SubSeq(s, k + 1, Len(s)))
             ELSE <<s>>

(***************************************************************************)
(* utils.py: parse_amount_maybe                                            *)
(***************************************************************************)
Unit == 10 * 10 * 10 * 10          \* four decimal places

DigitOf == [c \in DigitSet |-> CHOOSE d \in 0..9 : Char(Digits, d + 1) = c]

DigitVal(c) == DigitOf[c]

RECURSIVE IntPart(_)
IntPart(s) == IF s = "" THEN 0 ELSE 10 * IntPart(SubSeq(s, 1, Len(s) - 1)) + DigitVal(Char(s, Len(s)))

\* the fraction digits s in units of 1/Unit, the first digit weighing w;
\* digits past the fourth decimal place are below the unit
RECURSIVE FracPart(_, _)
FracPart(s, w) == IF s = "" THEN 0 ELSE DigitVal(Head(s)) * w + FracPart(Tail(s), w \div 10)

\* float(s) for s over digits, '.' and '-': [sign] digits [. [digits]] | [sign] . digits
float(s) ==
    LET neg   == s # "" /\ Head(s) = "-"
        body  == IF neg THEN Tail(s) ELSE s
        dots  == {k \in 1..Len(body) : Char(body, k) = "."}
        dot   == IF dots = {} THEN Len(body) + 1 ELSE CHOOSE k \in dots : TRUE
        whole == SubSeq(body, 1, dot - 1)
        frac  == SubSeq(body, dot + 1, Len(body))
        ok    == /\ Cardinality(dots) <= 1
                 /\ Chars(whole) \cup Chars(frac) \subseteq DigitSet
                 /\ Len(whole) + Len(frac) > 0
        mag   == IntPart(whole) * Unit + FracPart(frac, Unit \div 10)
    IN  IF ok THEN Some(IF neg THEN 0 - mag ELSE mag) ELSE None

AmountChars == DigitSet \cup {",", ".", "-"}

parse_amount_maybe(v) ==
    LET cleaned == strip(KeepChars(v, AmountChars))
    IN  IF cleaned = "" THEN None
        ELSE IF HasSub(cleaned, ",") /\ HasSub(cleaned, ".")
             THEN float(replace(cleaned, ",", ""))
        ELSE IF HasSub(cleaned, ",") /\ ~HasSub(cleaned, ".")
             THEN float(replace(cleaned, ",", "."))
        ELSE float(cleaned)

(***************************************************************************)
(* utils.py: parse_date_maybe.  dateutil's generic parser is represented   *)
(* on the two shapes the documents of this model use, YYYY-MM-DD and the   *)
(* day-first DD/MM/YYYY; any other fragment fails to parse.                *)
(***************************************************************************)
AllDigits(s) == s # "" /\ Chars(s) \subseteq DigitSet

ValidDate(y, m, d) == y >= 1 /\ m \in 1..12 /\ d \in 1..31

parse_date_maybe(v) ==
    LET s == strip(v)
        iso == /\ Len(s) = 10 /\ Char(s, 5) = "-" /\ Char(s, 8) = "-"
               /\ AllDigits(SubSeq(s, 1, 4)) /\ AllDigits(SubSeq(s, 6, 7))
               /\ AllDigits(SubSeq(s, 9, 10))
        dmy == /\ Len(s) = 10 /\ Char(s, 3) = "/" /\ Char(s, 6) = "/"
               /\ AllDigits(SubSeq(s, 1, 2)) /\ AllDigits(SubSeq(s, 4, 5))
               /\ AllDigits(SubSeq(s, 7, 10))
    IN  IF s = "" THEN None
        ELSE IF iso
             THEN LET y == IntPart(SubSeq(s, 1, 4))
                      m == IntPart(SubSeq(s, 6, 7))
                      d == IntPart(SubSeq(s, 9, 10))
                  IN  IF ValidDate(y, m, d) THEN Some(<<y, m, d>>) ELSE None
        ELSE IF dmy
             THEN LET a == IntPart(SubSeq(s, 1, 2))
                      b == IntPart(SubSeq(s, 4, 5))
                      y == IntPart(SubSeq(s, 7, 10))
                  IN  IF ValidDate(y, b, a) THEN Some(<<y, b, a>>)       \* dayfirst=True
                      ELSE IF ValidDate(y, a, b) THEN Some(<<y, a, b>>)
                      ELSE None
        ELSE None

\* date.isoformat()
Pad(n, width) ==
    LET t == ToString(n)
    IN  SubSeq("0000", 1, width - Len(t)) \o t

isoformat(d) == Pad(d[1], 4) \o "-" \o Pad(d[2], 2) \o "-" \o Pad(d[3], 2)

\* d1 < d2 on dates
DateLess(d1, d2) ==
    \/ d1[1] < d2[1]
    \/ d1[1] = d2[1] /\ d1[2] < d2[2]
    \/ d1[1] = d2[1] /\ d1[2] = d2[2] /\ d1[3] < d2[3]

(***************************************************************************)
(* extractor.py: the label patterns.  A pattern is a sequence of items, a  *)
(* literal (matched ignoring case) or a greedy repetition of a character   *)
(* class, with the span of items that makes the group _search_first reads. *)
(* A regex with an alternation is the sequence of its alternatives.        *)
(***************************************************************************)
Lit(s) == [kind |-> "lit", s |-> s]
Rep(class, neg, min, many) ==
    [kind |-> "rep", chars |-> class, neg |-> neg, min |-> min, many |-> many]

Letters == UpperSet \cup LowerSet

Spaces == Rep(SpaceSet, FALSE, 0, TRUE)                      \* \s*
Colon == Rep({":", "-"}, FALSE, 1, FALSE)                             \* [:\-]
Token == Rep(SpaceSet, TRUE, 1, TRUE)                        \* \S+
Rest == Rep({"\n"}, TRUE, 1, TRUE)                                    \* .+
DateText == Rep(Letters \cup DigitSet \cup {"/", "-", ".", " "}, FALSE, 1, TRUE)
TaxToken == Rep(Letters \cup DigitSet \cup {"-"}, FALSE, 1, TRUE)

Alt(items, from, to) == [items |-> items, from |-> from, to |-> to]

INVOICE_NO_PATTERNS == <<
    \* Invoice\s*(No\.?|Number|#)\s*[:\-]\s*(\S+), read at group 1
    << Alt(<<Lit("invoice"), Spaces, Lit("no"), Rep({"."}, FALSE, 0, FALSE),
             Spaces, Colon, Spaces, Token>>, 3, 4),
       Alt(<<Lit("invoice"), Spaces, Lit("number"), Spaces, Colon, Spaces, Token>>, 3, 3),
       Alt(<<Lit("invoice"), Spaces, Lit("#"), Spaces, Colon, Spaces, Token>>, 3, 3) >>,
    \* Inv\s*#\s*[:\-]\s*(\S+)
    << Alt(<<Lit("inv"), Spaces, Lit("#"), Spaces, Colon, Spaces, Token>>, 7, 7) >> >>

INVOICE_DATE_PATTERNS == <<
    << Alt(<<Lit("invoice"), Spaces, Lit("date"), Spaces, Colon, Spaces, DateText>>, 7, 7) >>,
    << Alt(<<Lit("date"), Spaces, Colon, Spaces, DateText>>, 5, 5) >> >>

DUE_DATE_PATTERNS == <<
    << Alt(<<Lit("due"), Spaces, Lit("date"), Spaces, Colon, Spaces, DateText>>, 7, 7) >> >>

SELLER_PATTERNS == <<
    << Alt(<<Lit("seller"), Spaces, Colon, Spaces, Rest>>, 5, 5) >>,
    << Alt(<<Lit("supplier"), Spaces, Colon, Spaces, Rest>>, 5, 5) >> >>

BUYER_PATTERNS == <<
    << Alt(<<Lit("buyer"), Spaces, Colon, Spaces, Rest>>, 5, 5) >>,
    << Alt(<<Lit("customer"), Spaces, Colon, Spaces, Rest>>, 5, 5) >> >>

\* (GSTIN|VAT|Tax\s*ID)\s*[:\-]\s*([A-Za-z0-9\-]+), read at group 2
TAX_ID_PATTERN ==
    << Alt(<<Lit("gstin"), Spaces, Colon, Spaces, TaxToken>>, 5, 5),
       Alt(<<Lit("vat"), Spaces, Colon, Spaces, TaxToken>>, 5, 5),
       Alt(<<Lit("tax"), Spaces, Lit("id"), Spaces, Colon, Spaces, TaxToken>>, 7, 7) >>

\* Payment\s*Terms\s*[:\-]\s*(.+)
PAYMENT_TERMS_PATTERN ==
    << Alt(<<Lit("payment"), Spaces, Lit("terms"), Spaces, Colon, Spaces, Rest>>, 7, 7) >>

CURRENCY_CODES == <<"INR", "EUR", "USD", "GBP">>

InClass(c, item) == ((c \in item.chars) \/ (LowerChar(c) \in item.chars)) # item.neg

\* how many characters of the class follow position pos (at most one unless many)
RECURSIVE Run(_, _, _)
Run(item, text, pos) ==
    IF pos <= Len(text) /\ InClass(Char(text, pos), item)
    THEN IF item.many THEN 1 + Run(item, text, pos + 1) ELSE 1
    ELSE 0

\* the match of items k.. at pos: None, or the start of each item and the end
RECURSIVE Match(_, _, _, _)
RECURSIVE TryRep(_, _, _, _, _)
Match(items, k, text, pos) ==
    IF k > Len(items) THEN Some(<<pos>>)
    ELSE IF items[k].kind = "lit"
         THEN LET n == Len(items[k].s)
              IN  IF pos + n - 1 <= Len(text)
                     /\ LowerChar(Char(text, pos)) = Char(items[k].s, 1)
                     /\ lower(SubSeq(text, pos, pos + n - 1)) = items[k].s
                  THEN LET r == Match(items, k + 1, text, pos + n)
                       IN  IF r = None THEN None ELSE Some(<<pos>> \o r[1])
                  ELSE None
         ELSE TryRep(items, k, text, pos, Run(items[k], text, pos))

\* greedy repetition with backtracking: n characters, then fewer
TryRep(items, k, text, pos, n) ==
    IF n < items[k].min THEN None
    ELSE LET r == Match(items, k + 1, text, pos + n)
         IN  IF r # None THEN Some(<<pos>> \o r[1])
             ELSE TryRep(items, k, text, pos, n - 1)

\* the group of the first alternative that matches at pos
RECURSIVE MatchAlts(_, _, _, _)
MatchAlts(alts, a, text, pos) ==
    IF a > Len(alts) THEN None
    ELSE LET r == Match(alts[a].items, 1, text, pos)
         IN  IF r # None
             THEN Some(SubSeq(text, r[1][alts[a].from], r[1][alts[a].to + 1] - 1))
             ELSE MatchAlts(alts, a + 1, text, pos)

\* re.search(pat, text, flags=re.IGNORECASE): the leftmost match
search(alts, text) ==
    LET hits == {pos \in 1..Len(text) : MatchAlts(alts, 1, text, pos) # None}
    IN  IF hits = {} THEN None
        ELSE MatchAlts(alts, 1, text, CHOOSE pos \in hits : \A q \in hits : pos <= q)

RECURSIVE SearchFrom(_, _, _)
SearchFrom(patterns, p, text) ==
    IF p > Len(patterns) THEN None
    ELSE LET m == search(patterns[p], text)
         IN  IF m # None THEN Some(strip(m[1])) ELSE SearchFrom(patterns, p + 1, text)

_search_first(patterns, text) == SearchFrom(patterns, 1, text)

\* Python's `x or default` on an optional string: None and "" are falsy
OrElse(opt, default) == IF opt = None \/ opt = Some("") THEN default ELSE opt[1]

WordChars == Letters \cup DigitSet \cup {"_"}

\* re.search(rf"\b{code}\b", text), case-sensitive
HasWord(text, code) ==
    \E k \in 1..(Len(text) - Len(code) + 1) :
        /\ SubSeq(text, k, k + Len(code) - 1) = code
        /\ (k = 1 \/ Char(text, k - 1) \notin WordChars)
        /\ (k + Len(code) > Len(text) \/ Char(text, k + Len(code)) \notin WordChars)

RECURSIVE GuessFrom(_, _)
GuessFrom(c, text) ==
    IF c > Len(CURRENCY_CODES) THEN "INR"
    ELSE IF HasWord(text, CURRENCY_CODES[c]) THEN CURRENCY_CODES[c]
    ELSE GuessFrom(c + 1, text)

_guess_currency(text) == GuessFrom(1, text)

(***************************************************************************)
(* extractor.py: _extract_totals, parse_invoice_from_text                  *)
(***************************************************************************)
\* TotalsStep with the tax branch tested before the net branch
TotalsStepTaxFirst(acc, line) ==
    LET low == lower(line)
        amt == parse_amount_maybe(line)
    IN  IF HasSub(low, "tax") \/ HasSub(low, "vat") \/ HasSub(low, "gst")
        THEN IF amt # None THEN <<acc[1], amt[1], acc[3]>> ELSE acc
        ELSE IF (HasSub(low, "net") /\ HasSub(low, "total")) \/ HasSub(low, "subtotal")
        THEN IF amt # None THEN <<amt[1], acc[2], acc[3]>> ELSE acc
        ELSE IF (HasSub(low, "total") \/ HasSub(low, "grand total")) /\ ~HasSub(low, "net")
        THEN IF amt # None THEN <<acc[1], acc[2], amt[1]>> ELSE acc
        ELSE acc

\* one iteration of the scan over the lines; acc is <<net, tax, gross>>
TotalsStep(acc, line) ==
    LET low == lower(line)
        amt == parse_amount_maybe(line)
    IN  IF (HasSub(low, "net") /\ HasSub(low, "total")) \/ HasSub(low, "subtotal")
        THEN IF amt # None THEN <<amt[1], acc[2], acc[3]>> ELSE acc
        ELSE IF HasSub(low, "tax") \/ HasSub(low, "vat") \/ HasSub(low, "gst")
        THEN IF amt # None THEN <<acc[1], amt[1], acc[3]>> ELSE acc
        ELSE IF (HasSub(low, "total") \/ HasSub(low, "grand total")) /\ ~HasSub(low, "net")
        THEN IF amt # None THEN <<acc[1], acc[2], amt[1]>> ELSE acc
        ELSE acc

RECURSIVE ScanTotals(_, _, _)
ScanTotals(acc, lines, k) ==
    IF k > Len(lines) THEN acc ELSE ScanTotals(TotalsStep(acc, lines[k]), lines, k + 1)

\* the fallback after the scan
GrossFallback(t) ==
    IF t[3] = 0 /\ (t[1] > 0 \/ t[2] > 0) THEN <<t[1], t[2], t[1] + t[2]>> ELSE t

_extract_totals(text) == GrossFallback(ScanTotals(<<0, 0, 0>>, splitlines(text), 1))

_extract_line_items(text) == <<>>

parse_invoice_from_text(text, source_file) ==
    LET raw_inv_date == OrElse(_search_first(INVOICE_DATE_PATTERNS, text), "")
        inv_date == parse_date_maybe(raw_inv_date)
        raw_due_date == OrElse(_search_first(DUE_DATE_PATTERNS, text), "")
        tax_id_match == search(TAX_ID_PATTERN, text)
        payment_terms_match == search(PAYMENT_TERMS_PATTERN, text)
        totals == _extract_totals(text)
    IN  [ source_file    |-> source_file,
          invoice_number |-> OrElse(_search_first(INVOICE_NO_PATTERNS, text), "UNKNOWN"),
          invoice_date   |-> IF inv_date # None THEN inv_date[1]
                             ELSE parse_date_maybe("2000-01-01")[1],
          due_date       |-> parse_date_maybe(raw_due_date),
          seller_name    |-> OrElse(_search_first(SELLER_PATTERNS, text), "UNKNOWN_SELLER"),
          seller_tax_id  |-> IF tax_id_match # None THEN Some(strip(tax_id_match[1])) ELSE None,
          buyer_name     |-> OrElse(_search_first(BUYER_PATTERNS, text), "UNKNOWN_BUYER"),
          buyer_tax_id   |-> None,
          currency       |-> _guess_currency(text),
          net_total      |-> totals[1],
          tax_amount     |-> totals[2],
          gross_total    |-> totals[3],
          payment_terms  |-> IF payment_terms_match # None
                             THEN Some(strip(payment_terms_match[1])) ELSE None,
          line_items     |-> _extract_line_items(text) ]

(***************************************************************************)
(* validator.py                                                            *)
(***************************************************************************)
EPSILON == 5 * (Unit \div 100)    \* 0.05
ALLOWED_CURRENCIES == {"INR", "EUR", "USD", "GBP"}

Abs(x) == IF x < 0 THEN 0 - x ELSE x

When(cond, tag) == IF cond THEN <<tag>> ELSE <<>>

_check_completeness(invoice) ==
       When(strip(invoice.invoice_number) = "", "missing_field: invoice_number")
    \o When(strip(invoice.seller_name) = "", "missing_field: seller_name")
    \o When(strip(invoice.buyer_name) = "", "missing_field: buyer_name")
    \o When(invoice.currency \notin ALLOWED_CURRENCIES,
            "invalid_currency: " \o invoice.currency)
    \o When(invoice.invoice_date[1] < 2000, "invalid_date: invoice_date_too_old")
    \o When(invoice.due_date # None /\ DateLess(invoice.due_date[1], invoice.invoice_date),
            "business_rule_failed: due_date_before_invoice_date")

\* TotalsMismatch with >= for >
TotalsMismatchAtTolerance(invoice) ==
    Abs((invoice.net_total + invoice.tax_amount) - invoice.gross_total) >= EPSILON

\* the comparison of line 41
TotalsMismatch(invoice) ==
    Abs((invoice.net_total + invoice.tax_amount) - invoice.gross_total) > EPSILON

RECURSIVE SumLineTotals(_)
SumLineTotals(items) ==
    IF items = <<>> THEN 0 ELSE Head(items).line_total + SumLineTotals(Tail(items))

_check_business_rules(invoice) ==
       When(TotalsMismatch(invoice),
            "business_rule_failed: totals_mismatch_net_plus_tax_ne_gross")
    \o When(invoice.net_total < 0 \/ invoice.tax_amount < 0 \/ invoice.gross_total < 0,
            "anomaly: negative_totals")
    \o When(invoice.line_items # <<>>
            /\ Abs(SumLineTotals(invoice.line_items) - invoice.net_total) > EPSILON,
            "business_rule_failed: line_items_sum_ne_net_total")

\* the key of line 64
DuplicateKey(inv) ==
    inv.invoice_number \o "::" \o inv.seller_name \o "::" \o isoformat(inv.invoice_date)

\* key_to_indices.setdefault(key, []).append(idx), the dict kept in insertion order
SetDefaultAppend(groups, key, i) ==
    IF \E g \in 1..Len(groups) : groups[g][1] = key
    THEN [g \in 1..Len(groups) |->
             IF groups[g][1] = key THEN <<key, Append(groups[g][2], i)>> ELSE groups[g]]
    ELSE Append(groups, <<key, <<i>>>>)

RECURSIVE KeyToIndices(_, _)
KeyToIndices(invs, n) ==
    IF n = 0 THEN <<>>
    ELSE SetDefaultAppend(KeyToIndices(invs, n - 1), DuplicateKey(invs[n]), n)

RECURSIVE MoreThanOne(_)
MoreThanOne(groups) ==
    IF groups = <<>> THEN <<>>
    ELSE (IF Len(Head(groups)[2]) > 1 THEN <<Head(groups)>> ELSE <<>>)
         \o MoreThanOne(Tail(groups))

_check_duplicates(invs) == MoreThanOne(KeyToIndices(invs, Len(invs)))

\* the positions the loops of lines 112-113 visit, in order
RECURSIVE Flatten(_)
Flatten(groups) ==
    IF groups = <<>> THEN <<>> ELSE Head(groups)[2] \o Flatten(Tail(groups))

EmptyCounter == [t \in {} |-> 0]

Increment(counter, tag) ==
    IF tag \in DOMAIN counter
    THEN [counter EXCEPT ![tag] = @ + 1]
    ELSE counter @@ (tag :> 1)

RECURSIVE CountErrors(_, _)
CountErrors(counter, errors) ==
    IF errors = <<>> THEN counter
    ELSE CountErrors(Increment(counter, Head(errors)), Tail(errors))

\* InvErrors with the two extends swapped
InvErrorsRulesFirst(inv) == _check_business_rules(inv) \o _check_completeness(inv)

InvErrors(inv) == _check_completeness(inv) \o _check_business_rules(inv)

ResultOf(inv, inv_errors) ==
    [ invoice_id  |-> inv.invoice_number,
      source_file |-> inv.source_file,
      is_valid    |-> Len(inv_errors) = 0,
      errors      |-> inv_errors ]

DUPLICATE_TAG == "anomaly: duplicate_invoice"

AnnotateResult(res, i) == [res EXCEPT ![i].errors = Append(@, DUPLICATE_TAG)]

\* AnnotateCounter without the increment of line 115
AnnotateCounterSkipped(counter) == counter

AnnotateCounter(counter) == Increment(counter, DUPLICATE_TAG)

SummaryOf(invs, res, counter) ==
    LET total_invoices == Len(invs)
        invalid_invoices == Cardinality({r \in 1..Len(res) : ~res[r].is_valid})
        valid_invoices == total_invoices - invalid_invoices
    IN  [ total_invoices   |-> total_invoices,
          valid_invoices   |-> valid_invoices,
          invalid_invoices |-> invalid_invoices,
          error_counts     |-> counter ]

(***************************************************************************)
(* Inputs                                                                  *)
(***************************************************************************)
MaxBatch == 3        \* invoices in a batch of the batch pool
MaxCalls == 2        \* calls of validate_invoices on the same batch
MaxLines == 3        \* total lines in a document
MaxAmountLen == 3    \* characters in a generated amount string

RECURSIVE SeqsUpTo(_, _)
SeqsUpTo(S, n) ==
    IF n = 0 THEN {<<>>}
    ELSE LET shorter == SeqsUpTo(S, n - 1)
         IN  shorter \cup {Append(q, x) : q \in shorter, x \in S}

RECURSIVE StringsUpTo(_, _)
StringsUpTo(S, n) ==
    IF n = 0 THEN {""}
    ELSE LET shorter == StringsUpTo(S, n - 1)
         IN  shorter \cup {q \o x : q \in shorter, x \in S}

Amt(whole, cents) == whole * Unit + cents * (Unit \div 100)

BaseInvoice ==
    [ source_file    |-> "f1.pdf",
      invoice_number |-> "A",
      invoice_date   |-> <<2024, 1, 10>>,
      due_date       |-> None,
      seller_name    |-> "B",
      seller_tax_id  |-> None,
      buyer_name     |-> "C",
      buyer_tax_id   |-> None,
      currency       |-> "INR",
      net_total      |-> Amt(100, 0),
      tax_amount     |-> Amt(18, 0),
      gross_total    |-> Amt(118, 0),
      payment_terms  |-> None,
      line_items     |-> <<>> ]

LineItem(total) ==
    [description |-> "item", quantity |-> 1, unit_price |-> total, line_total |-> total]

\* the invoices batches of up to MaxBatch are drawn from
BatchPool ==
    { BaseInvoice,
      [BaseInvoice EXCEPT !.source_file = "f2.pdf"],
      [BaseInvoice EXCEPT !.invoice_number = "A::"],
      [BaseInvoice EXCEPT !.seller_name = "::B"],
      [BaseInvoice EXCEPT !.invoice_number = "Z"],
      [BaseInvoice EXCEPT !.seller_name = "b", !.gross_total = Amt(118, 5)],
      [BaseInvoice EXCEPT !.gross_total = Amt(118, 10)],
      [BaseInvoice EXCEPT !.currency = "XXX", !.invoice_date = <<2024, 1, 11>>],
      [BaseInvoice EXCEPT !.currency = "inr", !.due_date = Some(<<2024, 1, 9>>)],
      [BaseInvoice EXCEPT !.invoice_number = " ", !.seller_name = "", !.buyer_name = "\t",
                          !.currency = "XXX", !.invoice_date = <<1999, 12, 31>>,
                          !.due_date = Some(<<1999, 12, 30>>),
                          !.net_total = Amt(-100, 0), !.gross_total = Amt(118, 10),
                          !.line_items = <<LineItem(Amt(50, 0)), LineItem(Amt(60, 0))>>] }

\* the invoices validated alone and twice over: every combination of the fields
\* the per-record checks read
RulePool ==
    { [BaseInvoice EXCEPT !.invoice_number = f[1], !.seller_name = f[2], !.buyer_name = f[3],
                          !.currency = f[4], !.invoice_date = f[5], !.due_date = f[6],
                          !.net_total = f[7], !.gross_total = f[8], !.line_items = f[9]] :
      f \in {" ", "A"} \X {"", "B"} \X {"", "C"} \X {"INR", "XXX"}
            \X {<<1999, 12, 31>>, <<2024, 1, 10>>}
            \X {None, Some(<<2024, 1, 9>>), Some(<<2024, 1, 10>>)}
            \X {Amt(100, 0), Amt(-100, 0)}
            \X {Amt(117, 90), Amt(117, 94), Amt(117, 95), Amt(118, 0), Amt(118, 3),
                Amt(118, 5), Amt(118, 6), Amt(118, 10), Amt(-82, 0)}
            \X {<<>>, <<LineItem(Amt(100, 0))>>,
                <<LineItem(Amt(50, 0)), LineItem(Amt(50, 6))>>} }

Batches ==
    SeqsUpTo(BatchPool, MaxBatch) \cup {<<r>> : r \in RulePool} \cup {<<r, r>> : r \in RulePool}

Headers ==
    { "Thank you for your business\n",     \* PlainHeader
      "Invoice Number: INV-7\nInvoice Date: 10/01/2024\nSeller: Acme\nBuyer: Bob\n",
      "Inv #: 42\nDate: 2024-01-10\nDue Date: 2024-01-05\nSupplier: Acme GmbH\nCustomer:\nBob\nEUR\n" }

TotalLines ==
    { "Net Total: 100.00\n",
      "Subtotal: -5.00\n",
      "VAT: 18.00\n",
      "Total: 118.10\n",
      "Total: n/a\n",
      "Net tax total: 7,5\n",
      "Shipping: 3.00\n" }

PlainHeader == "Thank you for your business\n"

Docs ==
    {h \o t : h \in Headers, t \in StringsUpTo(TotalLines, 1)}
    \cup {PlainHeader \o t : t \in StringsUpTo(TotalLines, MaxLines)}

\* the directories full-run reads: one document, or two of the plainer ones
DocBatches ==
    {<<d>> : d \in Docs}
    \cup {<<a, b>> : a \in Headers \cup {"Invoice No. - 9"}, b \in Headers \cup {"Invoice No. - 9"}}

AmountAlphabet == {"1", "5", ",", ".", "-", "$", " "}

AmountInputs ==
    StringsUpTo(AmountAlphabet, MaxAmountLen)
    \cup {"1.234,50", "1,234.50", "$ 1,234.50", "1 234,50", "Total: 100.00."}

\* the name of the idx-th file of the directory
FileName(k) == "doc" \o ToString(k) \o ".pdf"

(***************************************************************************)
(* The calls                                                               *)
(***************************************************************************)
Idle ==
    /\ idx = 1
    /\ results = <<>>
    /\ error_counter = EmptyCounter
    /\ duplicates = <<>>
    /\ summary = None
    /\ returned = <<>>
    /\ value = ""
    /\ amount = None

\* a caller holding a batch (the API's validate_json, the CLI's validate)
Init ==
    /\ texts = <<>>
    /\ invoices \in Batches
    /\ pc = "call"
    /\ Idle

\* the CLI's full_run over a directory of documents
InitFull ==
    /\ texts \in DocBatches
    /\ invoices = <<>>
    /\ pc = "extract"
    /\ Idle

\* a caller of parse_amount_maybe
InitAmount ==
    /\ texts = <<>>
    /\ invoices = <<>>
    /\ pc = "amount"
    /\ idx = 1
    /\ results = <<>>
    /\ error_counter = EmptyCounter
    /\ duplicates = <<>>
    /\ summary = None
    /\ returned = <<>>
    /\ value \in AmountInputs
    /\ amount = None

\* extract_from_dir: one iteration of the loop over the directory
ExtractDocument ==
    /\ pc = "extract"
    /\ idx <= Len(texts)
    /\ invoices' = Append(invoices, parse_invoice_from_text(texts[idx], FileName(idx)))
    /\ idx' = idx + 1
    /\ UNCHANGED <<texts, pc, results, error_counter, duplicates, summary, returned,
                   value, amount>>

\* extract_from_dir returns; full_run goes on to validate_invoices
ExtractReturn ==
    /\ pc = "extract"
    /\ idx > Len(texts)
    /\ pc' = "call"
    /\ idx' = 1
    /\ UNCHANGED <<texts, invoices, results, error_counter, duplicates, summary,
                   returned, value, amount>>

\* NewCounter for a counter kept at module level, never reset
StaleCounter == error_counter

\* the locals validate_invoices starts from
NewResults == <<>>
NewCounter == EmptyCounter

\* validate_invoices is entered (again, on the same batch, up to MaxCalls times)
Call ==
    /\ pc \in {"call", "done"}
    /\ Len(returned) < MaxCalls
    /\ results' = NewResults
    /\ error_counter' = NewCounter
    /\ duplicates' = <<>>
    /\ summary' = None
    /\ idx' = 1
    /\ pc' = "checks"
    /\ UNCHANGED <<texts, invoices, returned, value, amount>>

\* one iteration of the per-invoice loop
CheckInvoice ==
    /\ pc = "checks"
    /\ idx <= Len(invoices)
    /\ LET inv == invoices[idx]
           inv_errors == InvErrors(inv)
       IN  /\ error_counter' = CountErrors(error_counter, inv_errors)
           /\ results' = Append(results, ResultOf(inv, inv_errors))
    /\ idx' = idx + 1
    /\ UNCHANGED <<texts, invoices, pc, duplicates, summary, returned, value, amount>>

\* the per-invoice loop is over: duplicates = _check_duplicates(invoices)
FindDuplicates ==
    /\ pc = "checks"
    /\ idx > Len(invoices)
    /\ duplicates' = _check_duplicates(invoices)
    /\ idx' = 1
    /\ pc' = "annotate"
    /\ UNCHANGED <<texts, invoices, results, error_counter, summary, returned, value, amount>>

\* one iteration of the loops over the duplicate groups and their indices
AnnotateDuplicate ==
    /\ pc = "annotate"
    /\ idx <= Len(Flatten(duplicates))
    /\ results' = AnnotateResult(results, Flatten(duplicates)[idx])
    /\ error_counter' = AnnotateCounter(error_counter)
    /\ idx' = idx + 1
    /\ UNCHANGED <<texts, invoices, pc, duplicates, summary, returned, value, amount>>

\* the summary is built and the call returns
Return ==
    /\ pc = "annotate"
    /\ idx > Len(Flatten(duplicates))
    /\ summary' = Some(SummaryOf(invoices, results, error_counter))
    /\ returned' = Append(returned, [summary |-> SummaryOf(invoices, results, error_counter),
                                     results |-> results])
    /\ pc' = "done"
    /\ UNCHANGED <<texts, invoices, idx, results, error_counter, duplicates, value, amount>>

ParseAmount ==
    /\ pc = "amount"
    /\ amount' = parse_amount_maybe(value)
    /\ pc' = "parsed"
    /\ UNCHANGED <<texts, invoices, idx, results, error_counter, duplicates, summary,
                   returned, value>>

Next ==
    \/ Call
    \/ CheckInvoice
    \/ FindDuplicates
    \/ AnnotateDuplicate
    \/ Return

NextFull ==
    \/ ExtractDocument
    \/ ExtractReturn
    \/ Next

NextAmount == ParseAmount

Spec == Init /\ [][Next]_vars

SpecFull == InitFull /\ [][NextFull]_vars

SpecAmount == InitAmount /\ [][NextAmount]_vars

(***************************************************************************)
(* The claims                                                              *)
(***************************************************************************)
HasTag(errors, tag) == \E k \in 1..Len(errors) : errors[k] = tag

Occurrences(errors, tag) == Cardinality({k \in 1..Len(errors) : errors[k] = tag})

MISMATCH_TAG == "business_rule_failed: totals_mismatch_net_plus_tax_ne_gross"

\* C1: in the returned results, is_valid is true exactly when errors is empty,
\* the duplicate annotation included.
C1_ValidIffNoErrors ==
    pc = "done" =>
        \A i \in 1..Len(results) : results[i].is_valid <=> (results[i].errors = <<>>)

\* C2: in the returned summary, valid_invoices is the number of results whose
\* error list is empty after all annotations, invalid_invoices is total_invoices
\* minus valid_invoices, and total_invoices is the length of the batch.
C2_SummaryCounts ==
    pc = "done" =>
        /\ summary[1].valid_invoices
              = Cardinality({i \in 1..Len(results) : results[i].errors = <<>>})
        /\ summary[1].invalid_invoices
              = summary[1].total_invoices - summary[1].valid_invoices
        /\ summary[1].total_invoices = Len(invoices)

SameKeyFields(a, b) ==
    /\ a.invoice_number = b.invoice_number
    /\ a.seller_name = b.seller_name
    /\ a.invoice_date = b.invoice_date

\* C3: the result at position i carries the duplicate tag, exactly once, if and
\* only if another position holds an invoice with the same invoice_number,
\* seller_name and invoice_date; otherwise it carries none.
C3_DuplicateTagIffSameKey ==
    pc = "done" =>
        \A i \in 1..Len(results) :
            Occurrences(results[i].errors, DUPLICATE_TAG)
                = IF \E j \in 1..Len(invoices) :
                         j # i /\ SameKeyFields(invoices[i], invoices[j])
                  THEN 1 ELSE 0

AllTags(res) == UNION {{res[i].errors[k] : k \in 1..Len(res[i].errors)} : i \in 1..Len(res)}

RECURSIVE TotalOccurrences(_, _)
TotalOccurrences(res, tag) ==
    IF res = <<>> THEN 0
    ELSE Occurrences(Head(res).errors, tag) + TotalOccurrences(Tail(res), tag)

RECURSIVE SumLengths(_)
SumLengths(res) == IF res = <<>> THEN 0 ELSE Len(Head(res).errors) + SumLengths(Tail(res))

RECURSIVE SumCounts(_, _)
SumCounts(counts, tags) ==
    IF tags = {} THEN 0
    ELSE LET t == CHOOSE x \in tags : TRUE
         IN  counts[t] + SumCounts(counts, tags \ {t})

\* C4: error_counts maps each tag to its number of occurrences across all the
\* results' error lists, duplicate tags included: its keys are the tags that
\* occur, and its counts sum to the total length of the error lists.
C4_ErrorCounts ==
    pc = "done" =>
        LET counts == summary[1].error_counts
        IN  /\ DOMAIN counts = AllTags(results)
            /\ \A t \in DOMAIN counts : counts[t] = TotalOccurrences(results, t)
            /\ SumCounts(counts, DOMAIN counts) = SumLengths(results)

C4_Witness ==
    /\ pc = "done"
    /\ DUPLICATE_TAG \in DOMAIN summary[1].error_counts
    /\ summary[1].error_counts[DUPLICATE_TAG] = 2
    /\ \E t \in DOMAIN summary[1].error_counts :
           t # DUPLICATE_TAG /\ summary[1].error_counts[t] = 1

NoLabelPattern(text) ==
    \A patterns \in {INVOICE_NO_PATTERNS, INVOICE_DATE_PATTERNS, DUE_DATE_PATTERNS,
                     SELLER_PATTERNS, BUYER_PATTERNS} :
        \A p \in 1..Len(patterns) : search(patterns[p], text) = None

\* C5: a document without any label pattern is extracted with the sentinels
\* UNKNOWN, UNKNOWN_SELLER and UNKNOWN_BUYER, and its validation reports the
\* three missing_field errors.
C5_SentinelsReportedMissing ==
    pc = "done" =>
        \A i \in 1..Len(texts) :
            NoLabelPattern(texts[i]) =>
                /\ invoices[i].invoice_number = "UNKNOWN"
                /\ invoices[i].seller_name = "UNKNOWN_SELLER"
                /\ invoices[i].buyer_name = "UNKNOWN_BUYER"
                /\ HasTag(results[i].errors, "missing_field: invoice_number")
                /\ HasTag(results[i].errors, "missing_field: seller_name")
                /\ HasTag(results[i].errors, "missing_field: buyer_name")

\* C6: parse_amount_maybe returns 1234.50 for "1.234,50", as it does for
\* "$ 1,234.50", and None for the empty string.
C6_ParseAmount ==
    pc = "parsed" =>
        /\ value = "1.234,50" => amount = Some(Amt(1234, 50))
        /\ value = "$ 1,234.50" => amount = Some(Amt(1234, 50))
        /\ value = "" => amount = None

Discrepancy(inv) == Abs(inv.net_total + inv.tax_amount - inv.gross_total)

StartsWith(t, prefix) == Len(t) >= Len(prefix) /\ SubSeq(t, 1, Len(prefix)) = prefix

\* the place of a tag in the order the claim gives
Rank(tag) ==
    IF tag = "missing_field: invoice_number" THEN 1
    ELSE IF tag = "missing_field: seller_name" THEN 2
    ELSE IF tag = "missing_field: buyer_name" THEN 3
    ELSE IF StartsWith(tag, "invalid_currency: ") THEN 4
    ELSE IF tag = "invalid_date: invoice_date_too_old" THEN 5
    ELSE IF tag = "business_rule_failed: due_date_before_invoice_date" THEN 6
    ELSE IF tag = MISMATCH_TAG THEN 7
    ELSE IF tag = "anomaly: negative_totals" THEN 8
    ELSE IF tag = "business_rule_failed: line_items_sum_ne_net_total" THEN 9
    ELSE IF tag = DUPLICATE_TAG THEN 10
    ELSE 0

\* C8: in every result the tags stand in the order completeness, business
\* rules, duplicate annotation; no duplicate tag is written before every
\* invoice has its result; and results[i] is the result of invoices[i].
C8_TagOrderAndPhases ==
    /\ \A i \in 1..Len(results) :
           /\ \A k \in 1..Len(results[i].errors) : Rank(results[i].errors[k]) > 0
           /\ \A k, l \in 1..Len(results[i].errors) :
                  k < l => Rank(results[i].errors[k]) < Rank(results[i].errors[l])
    /\ (\E i \in 1..Len(results) : HasTag(results[i].errors, DUPLICATE_TAG))
           => pc \in {"annotate", "done"} /\ Len(results) = Len(invoices)
    /\ pc \in {"annotate", "done"} => Len(results) = Len(invoices)
    /\ Len(results) <= Len(invoices)
    /\ \A i \in 1..Len(results) :
           /\ results[i].invoice_id = invoices[i].invoice_number
           /\ results[i].source_file = invoices[i].source_file
           /\ results[i].is_valid
                  <=> /\ strip(invoices[i].invoice_number) # ""
                      /\ strip(invoices[i].seller_name) # ""
                      /\ strip(invoices[i].buyer_name) # ""
                      /\ invoices[i].currency \in {"INR", "EUR", "USD", "GBP"}
                      /\ invoices[i].invoice_date[1] >= 2000
                      /\ ~HasTag(results[i].errors, "business_rule_failed: due_date_before_invoice_date")
                      /\ ~HasTag(results[i].errors, MISMATCH_TAG)
                      /\ ~HasTag(results[i].errors, "anomaly: negative_totals")
                      /\ ~HasTag(results[i].errors, "business_rule_failed: line_items_sum_ne_net_total")

C8_Witness ==
    /\ pc = "done"
    /\ Len(results) = 3
    /\ Len(results[1].errors) = 10
    /\ results[2].errors = <<>>
    /\ Len(results[3].errors) = 10

\* C9: every call of validate_invoices on the same batch returns the same
\* summary and results as the first, and no step changes the batch.
C9_Idempotent ==
    [][ /\ invoices' = invoices
        /\ \A k \in 1..Len(returned') : returned'[k] = returned'[1] ]_vars

C9_Witness ==
    /\ Len(returned) = 2
    /\ Len(returned[2].results) = 3
    /\ HasTag(returned[2].results[1].errors, DUPLICATE_TAG)
    /\ HasTag(returned[2].results[3].errors, DUPLICATE_TAG)
    /\ HasTag(returned[2].results[2].errors, MISMATCH_TAG)
    /\ returned[2].summary.error_counts[DUPLICATE_TAG] = 2

\* the category the claim gives a line
Category(line) ==
    LET low == lower(line)
        Mentions(w) == HasSub(low, w)
    IN  IF (Mentions("net") /\ Mentions("total")) \/ Mentions("subtotal") THEN "net"
        ELSE IF Mentions("tax") \/ Mentions("vat") \/ Mentions("gst") THEN "tax"
        ELSE IF Mentions("total") /\ ~Mentions("net") THEN "gross"
        ELSE "none"

\* the amount of the last line of the category that parses, 0 if none
LastAmount(lines, category) ==
    LET hits == {k \in 1..Len(lines) :
                    Category(lines[k]) = category /\ parse_amount_maybe(lines[k]) # None}
    IN  IF hits = {} THEN 0
        ELSE parse_amount_maybe(lines[CHOOSE k \in hits : \A h \in hits : h <= k])[1]

TotalsAsClaimed(text) ==
    LET lines == splitlines(text)
        net == LastAmount(lines, "net")
        tax == LastAmount(lines, "tax")
        gross == LastAmount(lines, "gross")
    IN  <<net, tax, IF gross = 0 /\ (net > 0 \/ tax > 0) THEN net + tax ELSE gross>>

NoGrossLine(text) ==
    LET lines == splitlines(text)
    IN  \A k \in 1..Len(lines) : Category(lines[k]) # "gross"

ExtractedTotals(inv) == <<inv.net_total, inv.tax_amount, inv.gross_total>>

====
